---- MODULE Spec2Model ----
(***************************************************************************)
(* vnet_manager.config.validate.ValidateConfig as a state machine.         *)
(*                                                                         *)
(* A Python dict is a sequence of [key, val] entries with distinct keys,   *)
(* in insertion order (the order its items() are iterated in).  A value    *)
(* whose Python type the code tests is a record with a kind tag k:         *)
(* "absent" (the key is not in the enclosing dict), "dict", "list", "int", *)
(* "str", ... and a payload of one fixed shape per field.                  *)
(***************************************************************************)
EXTENDS Integers, Sequences, FiniteSets, TLC

VARIABLES
    config,          \* self.config: the description handed to __init__ (line 26)
    new_config,      \* self._new_config: the normalized copy (line 24)
    all_ok,          \* self._all_ok (line 22)
    validators_ran,  \* self._validators_ran (line 23)
    pc,              \* position inside validate(): "idle" between calls
    history,         \* the top-level calls made since construction, in order
    exc,             \* exception that ended the most recent call, or "none"
    calls,           \* checkers invoked by the most recent top-level call, in order
    invoked,         \* checker invocations since construction
    log              \* error-level diagnostics of the most recent top-level call

vars == <<config, new_config, all_ok, validators_ran, pc, history, exc, calls, invoked, log>>

\* the most recent top-level call
op == IF history = <<>> THEN "none" ELSE history[Len(history)]

-----------------------------------------------------------------------------
(* Bounds of the model.                                                    *)

MaxSwitches == 2        \* integer `switches` and `bridge` values range over -1..MaxSwitches
MaxRan == 4             \* a top-level call starts only while invoked < MaxRan

-----------------------------------------------------------------------------
(* Python dicts.                                                           *)

HasKey(d, k) == \E i \in DOMAIN d : d[i].key = k

Idx(d, k) == CHOOSE i \in DOMAIN d : d[i].key = k

Get(d, k) == d[Idx(d, k)].val

Keys(d) == {d[i].key : i \in DOMAIN d}

\* d[k] = v: an existing key keeps its place, a new key goes last
Put(d, k, v) ==
    IF HasKey(d, k)
    THEN [i \in DOMAIN d |-> IF d[i].key = k THEN [key |-> k, val |-> v] ELSE d[i]]
    ELSE Append(d, [key |-> k, val |-> v])

\* d.pop(k) on a present key: what is left of d
Pop(d, k) == SelectSeq(d, LAMBDA e : e.key # k)

\* dict equality is independent of the order of the entries
Entries(d) == {d[i] : i \in DOMAIN d}

-----------------------------------------------------------------------------
(* The running state of one call: the fields of self a checker reads and   *)
(* writes, the exception in flight, and the diagnostics emitted so far.    *)

\* logger.error(...) followed by self._all_ok = False; a diagnostic names the
\* violation, the machine and the offending item (with its directory, for a
\* path, and its position, for an element of a list)
Diag(what, m, item) == [what |-> what, m |-> m, item |-> item, dir |-> "", idx |-> 0]

Err(st, what, m, item) ==
    [st EXCEPT !.ok = FALSE, !.log = @ \cup {Diag(what, m, item)}]

ErrPath(st, what, m, path) ==
    [st EXCEPT !.ok = FALSE,
               !.log = @ \cup {[Diag(what, m, path.name) EXCEPT !.dir = path.dir]}]

ErrAt(st, what, m, item, idx) ==
    [st EXCEPT !.ok = FALSE, !.log = @ \cup {[Diag(what, m, item) EXCEPT !.idx = idx]}]

\* an uncaught exception: it propagates out of every enclosing handler
Raise(st, e) == [st EXCEPT !.exc = e]

\* self._new_config = config: the very same objects
deepcopy_alias(x) == [val |-> x, shared |-> TRUE]

\* copy.deepcopy(x): an equal value that shares no object with x
deepcopy(x) == [val |-> x, shared |-> FALSE]

\* seed: what random_mac_generator draws in this call; gen: addresses drawn so far
Self(seed) == [ok |-> all_ok, cfg |-> config, new |-> new_config, ran |-> validators_ran,
               exc |-> "none", log |-> {}, seed |-> seed, gen |-> 0]

\* st after a store into self._new_config has made it s2: the store is seen
\* through self.config as well exactly if the two share the objects written
Store(st, s2) == IF deepcopy(st.cfg).shared THEN [s2 EXCEPT !.cfg = s2.new] ELSE s2

-----------------------------------------------------------------------------
(* validate_switch_config                                                  *)

validate_switch_config(st) ==
    LET s1 == [st EXCEPT !.ran = @ + 1] IN
    IF config.switches.k = "absent" THEN Err(s1, "switches_missing", "", "")
    ELSE IF config.switches.k # "int" THEN Err(s1, "switches_not_int", "", "")
    ELSE s1

-----------------------------------------------------------------------------
(* Primitive services the checkers call.                                   *)

\* settings.SUPPORTED_MACHINE_TYPES
SUPPORTED_MACHINE_TYPES == {"router", "host", "switch"}

\* IP literals of the model and how the ipaddress parsers classify them
V4Lits == {"10.0.0.1/24", "10.0.0.0/24", "10.0.0.1", "0.0.0.0/0"}
V6Lits == {"fd00::1/64", "fd00::1"}

\* IPv4Interface(x) does not raise ValueError
IPv4Interface(x) == x \in V4Lits

\* IPv6Interface(x) does not raise ValueError
IPv6Interface(x) == x \in V6Lits

\* ip_interface(x) does not raise ValueError
ip_interface(x) == x \in V4Lits \cup V6Lits

\* ip_network(x) does not raise ValueError: strict, so host bits must be clear
ip_network(x) == x \in {"10.0.0.0/24", "10.0.0.1", "0.0.0.0/0", "fd00::1"}

\* ip_address(x) does not raise ValueError: a bare address, no prefix
ip_address(x) == x \in {"10.0.0.1", "fd00::1"}

\* fullmatch(r"^([0-9A-Fa-f]{2}[:-]){5}([0-9A-Fa-f]{2})$", mac) on a string:
\* six groups of two hex digits, each separator a colon or a hyphen
MacMatches(mac) == mac.pairs = 6 /\ mac.hex /\ mac.sep \in {"colon", "dash", "mixed"}

\* random_mac_generator(): the n-th address drawn in a call whose draws are seed
random_mac_generator(seed, n) ==
    [pairs |-> 6, sep |-> "colon", hex |-> TRUE, gen |-> 10 * seed + n]

\* int(x) for a string x: the strings of the model Python parses as an integer
IsNumeric(s) == s \in {"10", "7"}

IntOfStr(s) == IF s = "10" THEN 10 ELSE 7

\* The filesystem: the kind of each absolute path ("none": no such path).
Cwd == "/cwd"

FsKind(p) ==
    IF p = [dir |-> "/cfg", name |-> "a"] THEN "file"
    ELSE IF p = [dir |-> "/cfg", name |-> "d"] THEN "dir"
    ELSE IF p = [dir |-> "/cwd", name |-> "b"] THEN "file"
    ELSE IF p = [dir |-> "/etc", name |-> "hosts"] THEN "file"
    ELSE "none"

\* os.path.join(d, p): an absolute p discards d
join(d, p) == IF p.dir # "" THEN p ELSE [dir |-> d, name |-> p.name]

\* a relative path is resolved against the working directory
Resolve(p) == IF p.dir # "" THEN p ELSE [dir |-> Cwd, name |-> p.name]

isdir(p) == FsKind(Resolve(p)) = "dir"

isfile(p) == FsKind(Resolve(p)) = "file"

-----------------------------------------------------------------------------
(* validate_machine_files_parameters                                       *)

MName(mi) == config.machines.v[mi].key

MVals(mi) == config.machines.v[mi].val

\* the body of the loop for the fi-th key of the machine's files
FileBody(st, mi, fi) ==
    LET host_file == MVals(mi).files.v[fi].key
        joined == join(config.config_dir, host_file)
        newfiles == st.new.machines.v[mi].val.files.v
    IN  IF isdir(joined) \/ isfile(joined)
        THEN IF ~HasKey(newfiles, host_file)
             THEN Raise(st, "KeyError")
             ELSE Store(st, [st EXCEPT !.new.machines.v[mi].val.files.v =
                                 Put(Pop(newfiles, host_file), joined,
                                     Get(newfiles, host_file))])
        ELSE IF ~isdir(host_file) \/ ~isfile(host_file)
        THEN ErrPath(st, "file_missing", MName(mi), host_file)
        ELSE st

RECURSIVE FilesLoop(_, _, _)
FilesLoop(st, mi, fi) ==
    IF st.exc # "none" \/ fi > Len(MVals(mi).files.v) THEN st
    ELSE FilesLoop(FileBody(st, mi, fi), mi, fi + 1)

validate_machine_files_parameters(st, mi) == FilesLoop(st, mi, 1)

-----------------------------------------------------------------------------
(* validate_interface_routes                                               *)

RouteTo(st, mi, ii, ri) ==
    LET route == MVals(mi).interfaces.v[ii].val.routes.v[ri] IN
    IF route.to.k = "absent"
    THEN ErrAt(st, "route_to_missing", MName(mi), MVals(mi).interfaces.v[ii].key, ri)
    ELSE IF ip_network(route.to.s) THEN st
    ELSE IF route.to.s = "default"
    THEN Store(st, [st EXCEPT
                 !.new.machines.v[mi].val.interfaces.v[ii].val.routes.v[ri].to.s = "0.0.0.0/0"])
    ELSE ErrAt(st, "route_to_invalid", MName(mi), MVals(mi).interfaces.v[ii].key, ri)

RouteVia(st, mi, ii, ri) ==
    LET route == MVals(mi).interfaces.v[ii].val.routes.v[ri] IN
    IF route.via.k = "absent"
    THEN ErrAt(st, "route_via_missing", MName(mi), MVals(mi).interfaces.v[ii].key, ri)
    ELSE IF ip_address(route.via.s) THEN st
    ELSE ErrAt(st, "route_via_invalid", MName(mi), MVals(mi).interfaces.v[ii].key, ri)

\* a loop that gives up at the first route with a violation
RECURSIVE RoutesLoopUntilError(_, _, _, _)
RoutesLoopUntilError(st, mi, ii, ri) ==
    IF ri > Len(MVals(mi).interfaces.v[ii].val.routes.v) THEN st
    ELSE LET s2 == RouteVia(RouteTo(st, mi, ii, ri), mi, ii, ri) IN
         IF s2.log # st.log THEN s2 ELSE RoutesLoopUntilError(s2, mi, ii, ri + 1)

RECURSIVE RoutesLoop(_, _, _, _)
RoutesLoop(st, mi, ii, ri) ==
    IF ri > Len(MVals(mi).interfaces.v[ii].val.routes.v) THEN st
    ELSE RoutesLoop(RouteVia(RouteTo(st, mi, ii, ri), mi, ii, ri), mi, ii, ri + 1)

validate_interface_routes(st, mi, ii) == RoutesLoop(st, mi, ii, 1)

-----------------------------------------------------------------------------
(* validate_interface_config                                               *)

IVals(mi, ii) == MVals(mi).interfaces.v[ii].val

IName(mi, ii) == MVals(mi).interfaces.v[ii].key

IfaceIpv4(st, mi, ii) ==
    LET int_vals == IVals(mi, ii) IN
    IF int_vals.ipv4.k = "absent" THEN st
    ELSE IF IPv4Interface(int_vals.ipv4.s) THEN st
    ELSE Err(st, "ipv4_invalid", MName(mi), IName(mi, ii))

IfaceIpv6(st, mi, ii) ==
    LET int_vals == IVals(mi, ii) IN
    IF int_vals.ipv6.k = "absent" THEN st
    ELSE IF IPv6Interface(int_vals.ipv6.s) THEN st
    ELSE Err(st, "ipv6_invalid", MName(mi), IName(mi, ii))

\* fullmatch() on a value that is no string raises TypeError
IfaceMac(st, mi, ii) ==
    LET int_vals == IVals(mi, ii) IN
    IF st.exc # "none" THEN st
    ELSE IF int_vals.mac.k = "absent"
    THEN Store(st, [st EXCEPT !.new.machines.v[mi].val.interfaces.v[ii].val.mac =
                                  [k |-> "str", v |-> random_mac_generator(st.seed, st.gen + 1)],
                              !.gen = @ + 1])
    ELSE IF int_vals.mac.k # "str" THEN Raise(st, "TypeError")
    ELSE IF ~MacMatches(int_vals.mac.v)
    THEN Err(st, "mac_invalid", MName(mi), IName(mi, ii))
    ELSE st

\* int_vals["bridge"] > self.config["switches"] - 1, evaluated for an integer
\* bridge only: KeyError without `switches`, TypeError for a string; a float
\* switches [k |-> "float", n |-> n] stands for n + 0.5
BridgeAboveSwitches(b) ==
    IF config.switches.k = "float" THEN b >= config.switches.n
    ELSE b > config.switches.n - 1

IfaceBridge(st, mi, ii) ==
    LET int_vals == IVals(mi, ii) IN
    IF st.exc # "none" THEN st
    ELSE IF int_vals.bridge.k = "absent"
    THEN Err(st, "bridge_missing", MName(mi), IName(mi, ii))
    ELSE IF int_vals.bridge.k # "int"
    THEN Err(st, "bridge_invalid", MName(mi), IName(mi, ii))
    ELSE IF config.switches.k = "absent" THEN Raise(st, "KeyError")
    ELSE IF config.switches.k = "str" THEN Raise(st, "TypeError")
    ELSE IF BridgeAboveSwitches(int_vals.bridge.n)
    THEN Err(st, "bridge_invalid", MName(mi), IName(mi, ii))
    ELSE st

IfaceRoutes(st, mi, ii) ==
    LET int_vals == IVals(mi, ii) IN
    IF st.exc # "none" THEN st
    ELSE IF int_vals.routes.k = "absent" THEN st
    ELSE IF int_vals.routes.k # "list"
    THEN Err(st, "routes_not_list", MName(mi), IName(mi, ii))
    ELSE validate_interface_routes(st, mi, ii)

\* the body of the loop for the ii-th interface
IfaceBody(st, mi, ii) ==
    IfaceRoutes(IfaceBridge(IfaceMac(IfaceIpv6(IfaceIpv4(st, mi, ii), mi, ii), mi, ii),
                            mi, ii), mi, ii)

RECURSIVE IfacesLoop(_, _, _)
IfacesLoop(st, mi, ii) ==
    IF st.exc # "none" \/ ii > Len(MVals(mi).interfaces.v) THEN st
    ELSE IfacesLoop(IfaceBody(st, mi, ii), mi, ii + 1)

validate_interface_config(st, mi) == IfacesLoop(st, mi, 1)

-----------------------------------------------------------------------------
(* validate_vlan_config                                                    *)

VVals(mi, vi) == MVals(mi).vlans.v[vi].val

VName(mi, vi) == MVals(mi).vlans.v[vi].key

\* int(values["id"]): ValueError (caught) for a string that is no number,
\* TypeError (not caught) for None or a list
VlanId(st, mi, vi) ==
    LET id == VVals(mi, vi).id IN
    IF id.k = "absent" THEN Err(st, "vlan_id_missing", MName(mi), VName(mi, vi))
    ELSE IF id.k = "int"
    THEN Store(st, [st EXCEPT !.new.machines.v[mi].val.vlans.v[vi].val.id =
                                  [k |-> "int", n |-> id.n, s |-> ""]])
    ELSE IF id.k = "str"
    THEN IF IsNumeric(id.s)
         THEN Store(st, [st EXCEPT !.new.machines.v[mi].val.vlans.v[vi].val.id =
                                       [k |-> "int", n |-> IntOfStr(id.s), s |-> ""]])
         ELSE Err(st, "vlan_id_invalid", MName(mi), VName(mi, vi))
    ELSE Raise(st, "TypeError")

\* values["link"] not in self.config["machines"][machine]["interfaces"]
LinkDangling(mi, link) ==
    IF MVals(mi).interfaces.k = "dict" THEN ~HasKey(MVals(mi).interfaces.v, link)
    ELSE TRUE

\* the membership test made whatever the flag is
VlanLinkAlways(st, mi, vi) ==
    LET link == VVals(mi, vi).link IN
    IF st.exc # "none" THEN st
    ELSE IF link.k = "absent" THEN Err(st, "vlan_link_missing", MName(mi), VName(mi, vi))
    ELSE IF link.k # "str" THEN Err(st, "vlan_link_not_str", MName(mi), VName(mi, vi))
    ELSE IF MVals(mi).interfaces.k = "absent" THEN Raise(st, "KeyError")
    ELSE IF LinkDangling(mi, link.s)
    THEN Err(st, "vlan_link_dangling", MName(mi), VName(mi, vi))
    ELSE st

VlanLink(st, mi, vi) ==
    LET link == VVals(mi, vi).link IN
    IF st.exc # "none" THEN st
    ELSE IF link.k = "absent" THEN Err(st, "vlan_link_missing", MName(mi), VName(mi, vi))
    ELSE IF link.k # "str" THEN Err(st, "vlan_link_not_str", MName(mi), VName(mi, vi))
    ELSE IF ~st.ok THEN st
    ELSE IF MVals(mi).interfaces.k = "absent" THEN Raise(st, "KeyError")
    ELSE IF LinkDangling(mi, link.s)
    THEN Err(st, "vlan_link_dangling", MName(mi), VName(mi, vi))
    ELSE st

VlanAddresses(st, mi, vi) ==
    LET addresses == VVals(mi, vi).addresses IN
    IF st.exc # "none" THEN st
    ELSE IF addresses.k = "absent" THEN st
    ELSE IF addresses.k # "list"
    THEN Err(st, "vlan_addresses_not_list", MName(mi), VName(mi, vi))
    ELSE IF \E i \in DOMAIN addresses.v : ~ip_interface(addresses.v[i])
    THEN [st EXCEPT !.ok = FALSE,
                    !.log = @ \cup {[Diag("vlan_address_invalid", MName(mi), VName(mi, vi))
                                         EXCEPT !.idx = i] :
                                    i \in {j \in DOMAIN addresses.v :
                                               ~ip_interface(addresses.v[j])}}]
    ELSE st

RECURSIVE VlansLoop(_, _, _)
VlansLoop(st, mi, vi) ==
    IF st.exc # "none" \/ vi > Len(MVals(mi).vlans.v) THEN st
    ELSE VlansLoop(VlanAddresses(VlanLink(VlanId(st, mi, vi), mi, vi), mi, vi),
                   mi, vi + 1)

validate_vlan_config(st, mi) == VlansLoop(st, mi, 1)

-----------------------------------------------------------------------------
(* validate_machine_bridge_config                                          *)

BVals(mi, bi) == MVals(mi).bridges.v[bi].val

BName(mi, bi) == MVals(mi).bridges.v[bi].key

BridgeIpv4(st, mi, bi) ==
    IF BVals(mi, bi).ipv4.k = "absent" THEN st
    ELSE IF IPv4Interface(BVals(mi, bi).ipv4.s) THEN st
    ELSE Err(st, "bridge_ipv4_invalid", MName(mi), BName(mi, bi))

BridgeIpv6(st, mi, bi) ==
    IF BVals(mi, bi).ipv6.k = "absent" THEN st
    ELSE IF IPv6Interface(BVals(mi, bi).ipv6.s) THEN st
    ELSE Err(st, "bridge_ipv6_invalid", MName(mi), BName(mi, bi))

\* the undefined slave is logged and the flag left as it was
SlaveBodyLogOnly(st, mi, bi, si) ==
    LET slave == BVals(mi, bi).slaves.v[si] IN
    IF MVals(mi).interfaces.k = "absent" THEN Raise(st, "KeyError")
    ELSE IF MVals(mi).interfaces.k # "dict" THEN Raise(st, "AttributeError")
    ELSE IF slave \notin Keys(MVals(mi).interfaces.v)
    THEN [st EXCEPT !.log = @ \cup {Diag("slave_undefined", MName(mi), slave)}]
    ELSE st

\* slave not in self.config["machines"][machine]["interfaces"].keys(), for the
\* si-th slave: KeyError without `interfaces`, AttributeError when it has no keys()
SlaveBody(st, mi, bi, si) ==
    LET slave == BVals(mi, bi).slaves.v[si] IN
    IF MVals(mi).interfaces.k = "absent" THEN Raise(st, "KeyError")
    ELSE IF MVals(mi).interfaces.k # "dict" THEN Raise(st, "AttributeError")
    ELSE IF slave \notin Keys(MVals(mi).interfaces.v)
    THEN Err(st, "slave_undefined", MName(mi), slave)
    ELSE st

RECURSIVE SlavesLoop(_, _, _, _)
SlavesLoop(st, mi, bi, si) ==
    IF st.exc # "none" \/ si > Len(BVals(mi, bi).slaves.v) THEN st
    ELSE SlavesLoop(SlaveBody(st, mi, bi, si), mi, bi, si + 1)

BridgeSlaves(st, mi, bi) ==
    IF BVals(mi, bi).slaves.k = "absent"
    THEN Err(st, "slaves_missing", MName(mi), BName(mi, bi))
    ELSE IF BVals(mi, bi).slaves.k # "list"
    THEN Err(st, "slaves_not_list", MName(mi), BName(mi, bi))
    ELSE SlavesLoop(st, mi, bi, 1)

RECURSIVE BridgesLoop(_, _, _)
BridgesLoop(st, mi, bi) ==
    IF st.exc # "none" \/ bi > Len(MVals(mi).bridges.v) THEN st
    ELSE BridgesLoop(BridgeSlaves(BridgeIpv6(BridgeIpv4(st, mi, bi), mi, bi), mi, bi),
                     mi, bi + 1)

validate_machine_bridge_config(st, mi) == BridgesLoop(st, mi, 1)

-----------------------------------------------------------------------------
(* validate_machine_config                                                 *)

\* a type check that assigns its outcome to the flag
MachineTypeAssigns(st, mi) ==
    IF MVals(mi).type.k = "absent" THEN Err(st, "type_missing", MName(mi), "")
    ELSE IF MVals(mi).type.s \notin SUPPORTED_MACHINE_TYPES
    THEN Err(st, "type_unsupported", MName(mi), MVals(mi).type.s)
    ELSE [st EXCEPT !.ok = TRUE]

MachineType(st, mi) ==
    IF MVals(mi).type.k = "absent" THEN Err(st, "type_missing", MName(mi), "")
    ELSE IF MVals(mi).type.s \notin SUPPORTED_MACHINE_TYPES
    THEN Err(st, "type_unsupported", MName(mi), MVals(mi).type.s)
    ELSE st

MachineFiles(st, mi) ==
    IF MVals(mi).files.k = "absent" THEN st
    ELSE IF MVals(mi).files.k # "dict" THEN Err(st, "files_not_dict", MName(mi), "")
    ELSE validate_machine_files_parameters(st, mi)

MachineInterfaces(st, mi) ==
    IF st.exc # "none" THEN st
    ELSE IF MVals(mi).interfaces.k = "absent"
    THEN Err(st, "interfaces_missing", MName(mi), "")
    ELSE IF MVals(mi).interfaces.k # "dict"
    THEN Err(st, "interfaces_not_dict", MName(mi), "")
    ELSE validate_interface_config(st, mi)

MachineVlans(st, mi) ==
    IF st.exc # "none" THEN st
    ELSE IF MVals(mi).vlans.k = "absent" THEN st
    ELSE IF MVals(mi).vlans.k # "dict" THEN Err(st, "vlans_not_dict", MName(mi), "")
    ELSE validate_vlan_config(st, mi)

MachineBridges(st, mi) ==
    IF st.exc # "none" THEN st
    ELSE IF MVals(mi).bridges.k = "absent" THEN st
    ELSE IF MVals(mi).bridges.k # "dict" THEN Err(st, "bridges_not_dict", MName(mi), "")
    ELSE validate_machine_bridge_config(st, mi)

\* the body of the loop for the mi-th machine
MachineBody(st, mi) ==
    MachineBridges(MachineVlans(MachineInterfaces(MachineFiles(MachineType(st, mi), mi),
                                                  mi), mi), mi)

RECURSIVE MachinesLoop(_, _)
MachinesLoop(st, mi) ==
    IF st.exc # "none" \/ mi > Len(config.machines.v) THEN st
    ELSE MachinesLoop(MachineBody(st, mi), mi + 1)

validate_machine_config(st) ==
    LET s1 == [st EXCEPT !.ran = @ + 1] IN
    IF config.machines.k = "absent" THEN Err(s1, "machines_missing", "", "")
    ELSE IF config.machines.k # "dict" THEN Err(s1, "machines_not_dict", "", "")
    ELSE MachinesLoop(s1, 1)

-----------------------------------------------------------------------------
(* validate_veth_config                                                    *)

VethBridge(st, e) ==
    IF e.val.bridge = "absent" THEN Err(st, "veth_bridge_missing", "", e.key.s)
    ELSE IF e.val.bridge # "str" THEN Err(st, "veth_bridge_not_str", "", e.key.s)
    ELSE st

\* a peer check that wants the key
VethPeerRequired(st, e) ==
    IF e.val.peer # "str" THEN Err(st, "veth_peer_not_str", "", e.key.s)
    ELSE st

VethPeer(st, e) ==
    IF e.val.peer = "absent" THEN st
    ELSE IF e.val.peer # "str" THEN Err(st, "veth_peer_not_str", "", e.key.s)
    ELSE st

VethStp(st, e) ==
    IF e.val.stp = "absent" THEN st
    ELSE IF e.val.stp # "bool" THEN Err(st, "veth_stp_not_bool", "", e.key.s)
    ELSE st

\* the body of the loop for the i-th entry of veths
VethBody(st, i) ==
    LET e == config.veths.v[i] IN
    IF e.key.k # "str" THEN Err(st, "veth_name_not_str", "", e.key.s)
    ELSE IF e.val.k # "dict" THEN Err(st, "veth_not_dict", "", e.key.s)
    ELSE VethStp(VethPeer(VethBridge(st, e), e), e)

RECURSIVE VethsLoop(_, _)
VethsLoop(st, i) ==
    IF i > Len(config.veths.v) THEN st
    ELSE VethsLoop(VethBody(st, i), i + 1)

validate_veth_config(st) ==
    IF config.veths.k = "absent" THEN st
    ELSE IF config.veths.k # "dict" THEN Err(st, "veths_not_dict", "", "")
    ELSE VethsLoop(st, 1)

-----------------------------------------------------------------------------
(* validate(), as one step from st                                         *)

validate(st) ==
    LET s1 == validate_switch_config([st EXCEPT !.ok = TRUE])
        s2 == validate_machine_config(s1)
    IN  IF s2.exc # "none" THEN s2
        ELSE IF config.veths.k # "absent" THEN validate_veth_config(s2)
        ELSE s2

-----------------------------------------------------------------------------
(* The descriptions handed to __init__.                                    *)

MaxRoutes == 2          \* routes of one interface
MaxVlans == 2           \* VLANs of one machine
MaxFiles == 2           \* files of one machine
MaxVeths == 2           \* entries of veths

StrV(s) == [k |-> "str", s |-> s]
NoStr == [k |-> "absent", s |-> ""]
NotStr == [k |-> "int", s |-> ""]
IntV(n) == [k |-> "int", n |-> n]
NoInt == [k |-> "absent", n |-> 0]
NotInt == [k |-> "str", n |-> 0]
NoSeq == [k |-> "absent", v |-> <<>>]
ListV(q) == [k |-> "list", v |-> q]
DictV(q) == [k |-> "dict", v |-> q]
NotList == [k |-> "str", v |-> <<>>]
NotDict == [k |-> "list", v |-> <<>>]

\* the dicts of at most n entries with keys names[1], names[2], ... and values in S
DictsUpTo(names, S, n) ==
    UNION {{[i \in 1..k |-> [key |-> names[i], val |-> f[i]]] : f \in [1..k -> S]} :
           k \in 0..n}

SeqsUpTo(S, n) == UNION {[1..k -> S] : k \in 0..n}

\* MAC literals: a valid one with colons, one with mixed separators, a short
\* one, one with a non-hex digit, one with dots
MacLit(pairs, sep, hex) == [pairs |-> pairs, sep |-> sep, hex |-> hex, gen |-> 0]
NoMac == [k |-> "absent", v |-> MacLit(0, "colon", FALSE)]
MacValues ==
    {NoMac, [k |-> "int", v |-> MacLit(0, "colon", FALSE)]} \cup
    {[k |-> "str", v |-> m] :
        m \in {MacLit(6, "colon", TRUE), MacLit(6, "mixed", TRUE),
               MacLit(5, "colon", TRUE), MacLit(6, "colon", FALSE),
               MacLit(6, "dot", TRUE)}}

IntValues == {NoInt, NotInt} \cup {IntV(n) : n \in -1..MaxSwitches}

SwitchValues == IntValues \cup {[k |-> "float", n |-> 1]}

Route(to, via) == [to |-> to, via |-> via]
GoodRoute == Route(StrV("10.0.0.0/24"), StrV("10.0.0.1"))
RouteSpecs ==
    {Route(to, StrV("10.0.0.1")) :
        to \in {NoStr, StrV("default"), StrV("10.0.0.0/24"), StrV("10.0.0.1/24"),
                StrV("bogus")}} \cup
    {Route(StrV("10.0.0.0/24"), via) : via \in {NoStr, StrV("10.0.0.1/24"), StrV("bogus")}} \cup
    {Route(StrV("default"), NoStr)}

\* the routes that longer lists are made of
RouteCore ==
    {GoodRoute, Route(StrV("default"), StrV("10.0.0.1")),
     Route(StrV("10.0.0.1/24"), StrV("10.0.0.1")), Route(StrV("10.0.0.0/24"), NoStr)}

RoutesValues ==
    {NoSeq, NotList} \cup
    {ListV(q) : q \in SeqsUpTo(RouteSpecs, 1) \cup SeqsUpTo(RouteCore, MaxRoutes)}

Iface(ipv4, ipv6, mac, bridge, routes) ==
    [ipv4 |-> ipv4, ipv6 |-> ipv6, mac |-> mac, bridge |-> bridge, routes |-> routes]

\* eth on switch 0, everything optional left out
GoodIface == Iface(NoStr, NoStr, NoMac, IntV(0), NoSeq)

\* one field of an interface at a time, and MAC against bridge
IfaceSpecs ==
    {Iface(a, NoStr, NoMac, IntV(0), NoSeq) : a \in {StrV("10.0.0.1/24"), StrV("fd00::1/64"), StrV("bogus")}} \cup
    {Iface(NoStr, a, NoMac, IntV(0), NoSeq) : a \in {StrV("10.0.0.1/24"), StrV("fd00::1/64"), StrV("bogus")}} \cup
    {Iface(NoStr, NoStr, m, b, NoSeq) : m \in MacValues, b \in {NoInt, IntV(0)}} \cup
    {Iface(NoStr, NoStr, NoMac, b, NoSeq) : b \in IntValues} \cup
    {Iface(NoStr, NoStr, NoMac, IntV(0), r) : r \in RoutesValues}

Vlan(id, link, addresses) == [id |-> id, link |-> link, addresses |-> addresses]
IdV(k, n, s) == [k |-> k, n |-> n, s |-> s]
GoodVlan == Vlan(IdV("str", 0, "10"), StrV("eth0"), ListV(<<"10.0.0.1/24">>))
VlanSpecs ==
    {Vlan(id, StrV("eth0"), NoSeq) :
        id \in {IdV("absent", 0, ""), IdV("int", 10, ""), IdV("str", 0, "10"),
                IdV("str", 0, "ten"), IdV("none", 0, ""), IdV("list", 0, "")}} \cup
    {Vlan(IdV("int", 7, ""), link, NoSeq) :
        link \in {NoStr, NotStr, StrV("eth0"), StrV("ethX")}} \cup
    {Vlan(IdV("str", 0, "ten"), StrV("ethX"), NoSeq)} \cup
    {Vlan(IdV("int", 7, ""), StrV("eth0"), a) :
        a \in {NotList, ListV(<<"10.0.0.1/24">>), ListV(<<"bogus", "fd00::1/64">>)}}

\* the VLANs that longer `vlans` are made of
VlanCore ==
    {GoodVlan, Vlan(IdV("absent", 0, ""), StrV("eth0"), NoSeq),
     Vlan(IdV("int", 7, ""), StrV("ethX"), NoSeq), Vlan(IdV("int", 7, ""), NotStr, NoSeq)}

VlanNames == <<"vlan0", "vlan1", "vlan2">>

VlansValues ==
    {NoSeq, NotDict} \cup
    {DictV(d) : d \in DictsUpTo(VlanNames, VlanSpecs \cup {GoodVlan}, 1) \cup
                      DictsUpTo(VlanNames, VlanCore, MaxVlans)}

Bridge(ipv4, ipv6, slaves) == [ipv4 |-> ipv4, ipv6 |-> ipv6, slaves |-> slaves]
BridgeSpecs ==
    {Bridge(a, NoStr, ListV(<<"eth0">>)) : a \in {StrV("10.0.0.1/24"), StrV("bogus")}} \cup
    {Bridge(NoStr, a, ListV(<<"eth0">>)) : a \in {StrV("fd00::1/64"), StrV("bogus")}} \cup
    {Bridge(NoStr, NoStr, sl) :
        sl \in {NoSeq, NotList, ListV(<<>>), ListV(<<"eth0">>), ListV(<<"eth0", "ethX">>),
                ListV(<<"ethX">>)}}

FileKeys ==
    {[dir |-> "", name |-> "a"], [dir |-> "", name |-> "b"], [dir |-> "", name |-> "zz"],
     [dir |-> "/etc", name |-> "hosts"], [dir |-> "/cfg", name |-> "a"]}

\* files with distinct keys; the i-th declared file has the per-file value i
FilesValues ==
    {NoSeq, NotDict} \cup
    {DictV([i \in DOMAIN q |-> [key |-> q[i], val |-> i]]) :
        q \in {r \in SeqsUpTo(FileKeys, MaxFiles) :
                  \A i, j \in DOMAIN r : i # j => r[i] # r[j]}}

Machine(type, files, interfaces, vlans, bridges) ==
    [type |-> type, files |-> files, interfaces |-> interfaces, vlans |-> vlans,
     bridges |-> bridges]

OneIface(i) == DictV(<<[key |-> "eth0", val |-> i]>>)

GoodIfaces == OneIface(GoodIface)

GoodMachine == Machine(StrV("router"), NoSeq, GoodIfaces, NoSeq, NoSeq)

\* one section of a machine at a time; VLANs and bridges against each shape of
\* `interfaces`
InterfacesShapes == {NoSeq, NotDict, DictV(<<>>), GoodIfaces}

MachineSpecs ==
    {Machine(t, NoSeq, GoodIfaces, NoSeq, NoSeq) : t \in {NoStr, StrV("router"), StrV("toaster")}} \cup
    {Machine(StrV("host"), f, GoodIfaces, NoSeq, NoSeq) : f \in FilesValues} \cup
    {Machine(StrV("host"), NoSeq, OneIface(i), NoSeq, NoSeq) : i \in IfaceSpecs} \cup
    {Machine(StrV("host"), NoSeq,
             DictV(<<[key |-> "eth0", val |-> GoodIface], [key |-> "eth1", val |-> i]>>),
             NoSeq, NoSeq) :
        i \in {Iface(NoStr, NoStr, NoMac, b, NoSeq) : b \in IntValues}} \cup
    {Machine(StrV("host"), NoSeq, i, NoSeq, NoSeq) : i \in InterfacesShapes} \cup
    {Machine(StrV("host"), NoSeq, i, v, NoSeq) : i \in InterfacesShapes, v \in VlansValues} \cup
    {Machine(StrV("host"), NoSeq, i, NoSeq, b) :
        i \in InterfacesShapes,
        b \in {NotDict} \cup {DictV(d) : d \in DictsUpTo(<<"br0">>, BridgeSpecs, 1)}}

\* the machines a second machine is combined with
PairSpecs ==
    {GoodMachine,
     Machine(NoStr, NoSeq, GoodIfaces, NoSeq, NoSeq),
     Machine(StrV("host"), DictV(<<[key |-> [dir |-> "", name |-> "a"], val |-> 1]>>),
             GoodIfaces, NoSeq, NoSeq),
     Machine(StrV("host"), NoSeq, OneIface(Iface(NoStr, NoStr, NoMac, IntV(-1), NoSeq)),
             NoSeq, NoSeq),
     Machine(StrV("host"), NoSeq, GoodIfaces,
             DictV(<<[key |-> "vlan0", val |-> Vlan(IdV("str", 0, "10"), StrV("ethX"), NoSeq)]>>),
             NoSeq),
     Machine(StrV("host"), NoSeq, GoodIfaces, DictV(<<[key |-> "vlan0", val |-> GoodVlan]>>),
             NoSeq),
     Machine(StrV("host"), NoSeq, GoodIfaces, NoSeq,
             DictV(<<[key |-> "br0",
                      val |-> Bridge(NoStr, NoStr, ListV(<<"eth0", "ethX">>))]>>)),
     Machine(StrV("host"), NoSeq, GoodIfaces, NoSeq,
             DictV(<<[key |-> "br0", val |-> Bridge(NoStr, NoStr, ListV(<<"eth0">>))]>>)),
     Machine(StrV("host"), NoSeq, NoSeq, NoSeq,
             DictV(<<[key |-> "br0", val |-> Bridge(NoStr, NoStr, ListV(<<"eth0">>))]>>))}

MachinesValues ==
    {NoSeq, NotDict, DictV(<<>>)} \cup
    {DictV(<<[key |-> "r1", val |-> m]>>) : m \in MachineSpecs} \cup
    {DictV(<<[key |-> "r1", val |-> m1], [key |-> "r2", val |-> m2]>>) :
        m1 \in PairSpecs, m2 \in PairSpecs}

Veth(bridge, peer, stp) == [k |-> "dict", bridge |-> bridge, peer |-> peer, stp |-> stp]
GoodVeth == Veth("str", "absent", "absent")
VethSpecs ==
    {[k |-> "str", bridge |-> "absent", peer |-> "absent", stp |-> "absent"]} \cup
    {Veth(b, "absent", "absent") : b \in {"absent", "str", "int"}} \cup
    {Veth("str", p, "absent") : p \in {"str", "int"}} \cup
    {Veth("str", "absent", t) : t \in {"bool", "str"}}

\* the entries that longer `veths` are made of
VethCore == {GoodVeth, Veth("absent", "absent", "absent"), Veth("str", "str", "bool")}

VethNames == <<StrV("veth0"), StrV("veth1"), StrV("veth2")>>

VethsValues ==
    {NoSeq, NotDict, DictV(<<[key |-> NotStr, val |-> GoodVeth]>>)} \cup
    {DictV(d) : d \in DictsUpTo(VethNames, VethSpecs, 1) \cup
                      DictsUpTo(VethNames, VethCore, MaxVeths)}

Description(switches, machines, veths) ==
    [switches |-> switches, machines |-> machines, veths |-> veths, config_dir |-> "/cfg"]

GoodMachines == DictV(<<[key |-> "r1", val |-> GoodMachine]>>)

\* a router with one interface on each of two switches
TwoBridgeRouter ==
    Machine(StrV("router"), NoSeq,
            DictV(<<[key |-> "eth0", val |-> Iface(NoStr, NoStr, NoMac, IntV(0), NoSeq)],
                    [key |-> "eth1", val |-> Iface(NoStr, NoStr, NoMac, IntV(1), NoSeq)]>>),
            NoSeq, NoSeq)

\* a machine whose only VLAN links to an interface it does not declare
DanglingVlanMachine ==
    Machine(StrV("host"), NoSeq, GoodIfaces,
            DictV(<<[key |-> "vlan0", val |-> Vlan(IdV("str", 0, "10"), StrV("ethX"), NoSeq)]>>),
            NoSeq)

\* every root key against a good rest, `switches` against every machine with
\* one interface and against a dangling VLAN link, and every `machines` with
\* and without a good `veths`
Descriptions ==
    {Description(IntV(MaxSwitches), m, v) :
        m \in MachinesValues, v \in {NoSeq, DictV(<<[key |-> StrV("veth0"), val |-> GoodVeth]>>)}} \cup
    {Description(s, DictV(<<[key |-> "r1", val |-> m]>>), NoSeq) :
        s \in SwitchValues,
        m \in {Machine(StrV("host"), NoSeq, i, NoSeq, NoSeq) :
                  i \in {DictV(<<>>)} \cup
                        {OneIface(Iface(NoStr, NoStr, NoMac, b, NoSeq)) : b \in IntValues}}} \cup
    {Description(s, m, v) :
        s \in SwitchValues, m \in {NoSeq, GoodMachines},
        v \in {NoSeq, DictV(<<[key |-> StrV("veth0"), val |-> GoodVeth]>>)}} \cup
    {Description(IntV(MaxSwitches), m, v) : m \in {NoSeq, GoodMachines}, v \in VethsValues} \cup
    {Description(s, DictV(<<[key |-> "r1", val |-> m]>>), NoSeq) :
        s \in SwitchValues, m \in {TwoBridgeRouter, DanglingVlanMachine}}


-----------------------------------------------------------------------------
(* The calls a user of the object makes.  validate() is taken one checker  *)
(* at a time; nothing else runs on the object until it has returned or     *)
(* raised.                                                                 *)

\* random_mac_generator's draws of one call
Seeds == {1, 2}

\* the fields of self after a checker has run to st
Commit(st, before) ==
    /\ config' = st.cfg
    /\ all_ok' = st.ok
    /\ new_config' = st.new
    /\ validators_ran' = st.ran
    /\ exc' = st.exc
    /\ log' = before \cup st.log

\* validate(), line 58: self._all_ok = True
ValidateBegin ==
    /\ pc = "idle"
    /\ invoked < MaxRan
    /\ all_ok' = TRUE
    /\ pc' = "switch"
    /\ history' = Append(history, "validate")
    /\ exc' = "none"
    /\ calls' = <<>>
    /\ log' = {}
    /\ UNCHANGED <<config, new_config, validators_ran, invoked>>

\* validate(), line 59
ValidateSwitch ==
    /\ pc = "switch"
    /\ Commit(validate_switch_config(Self(1)), log)
    /\ calls' = Append(calls, "switch")
    /\ invoked' = invoked + 1
    /\ pc' = "machine"
    /\ UNCHANGED history

\* validate(), lines 60-61: an exception leaves validate()
ValidateMachine ==
    /\ pc = "machine"
    /\ \E seed \in Seeds :
          LET st == validate_machine_config(Self(seed)) IN
          /\ Commit(st, log)
          /\ pc' = IF st.exc # "none" THEN "idle"
                   ELSE IF config.veths.k # "absent" THEN "veth"
                   ELSE "idle"
    /\ calls' = Append(calls, "machine")
    /\ invoked' = invoked + 1
    /\ UNCHANGED history

\* validate(), line 62
ValidateVeth ==
    /\ pc = "veth"
    /\ Commit(validate_veth_config(Self(1)), log)
    /\ calls' = Append(calls, "veth")
    /\ invoked' = invoked + 1
    /\ pc' = "idle"
    /\ UNCHANGED history

\* a checker called on its own, outside validate()
CallSwitch ==
    /\ pc = "idle"
    /\ invoked < MaxRan
    /\ Commit(validate_switch_config(Self(1)), {})
    /\ history' = Append(history, "switch")
    /\ calls' = <<"switch">>
    /\ invoked' = invoked + 1
    /\ UNCHANGED pc

CallMachine ==
    /\ pc = "idle"
    /\ invoked < MaxRan
    /\ \E seed \in Seeds :
          Commit(validate_machine_config(Self(seed)), {})
    /\ history' = Append(history, "machine")
    /\ calls' = <<"machine">>
    /\ invoked' = invoked + 1
    /\ UNCHANGED pc

CallVeth ==
    /\ pc = "idle"
    /\ invoked < MaxRan
    /\ Commit(validate_veth_config(Self(1)), {})
    /\ history' = Append(history, "veth")
    /\ calls' = <<"veth">>
    /\ invoked' = invoked + 1
    /\ UNCHANGED pc

Next ==
    \/ ValidateBegin
    \/ ValidateSwitch
    \/ ValidateMachine
    \/ ValidateVeth
    \/ CallSwitch
    \/ CallMachine
    \/ CallVeth

\* __init__
Init ==
    /\ config \in Descriptions
    /\ new_config = deepcopy(config).val
    /\ all_ok = TRUE
    /\ validators_ran = 0
    /\ pc = "idle"
    /\ history = <<>>
    /\ exc = "none"
    /\ calls = <<>>
    /\ invoked = 0
    /\ log = {}

Spec == Init /\ [][Next]_vars

-----------------------------------------------------------------------------
(* Properties.                                                             *)

\* the most recent call was validate() and it has returned or raised
Ended == pc = "idle" /\ op = "validate"

\* the most recent call was validate() and it has returned
Returned == Ended /\ exc = "none"

Machines == IF config.machines.k = "dict" THEN DOMAIN config.machines.v ELSE {}

Ifaces(mi) == IF MVals(mi).interfaces.k = "dict" THEN DOMAIN MVals(mi).interfaces.v ELSE {}

Vlans(mi) == IF MVals(mi).vlans.k = "dict" THEN DOMAIN MVals(mi).vlans.v ELSE {}

Bridges(mi) == IF MVals(mi).bridges.k = "dict" THEN DOMAIN MVals(mi).bridges.v ELSE {}

Files(mi) == IF MVals(mi).files.k = "dict" THEN DOMAIN MVals(mi).files.v ELSE {}

VethsPresent == config.veths.k # "absent"

\* C1: for every description whose `switches` is missing or no integer,
\* validate() returns (it does not raise) and the success flag is false afterwards.
C1_InvalidSwitchesReturnsFalse ==
    (Ended /\ config.switches.k # "int") => (exc = "none" /\ ~all_ok)

\* a machine without a mapping `interfaces` and with a bridge that has a `slaves` list
C2Machine(mi) ==
    /\ MVals(mi).interfaces.k # "dict"
    /\ \E bi \in Bridges(mi) : BVals(mi, bi).slaves.k = "list"

\* C2: for a machine whose `interfaces` is absent or no mapping and which has a
\* bridge with a `slaves` list, validate() does not raise, the flag is false, and
\* the veth check (when `veths` is present) is still made.
C2_MissingInterfacesWithSlavesReturns ==
    (Ended /\ \E mi \in Machines : C2Machine(mi)) =>
        /\ exc = "none"
        /\ ~all_ok
        /\ VethsPresent => calls = <<"switch", "machine", "veth">>

\* C3: with integer `switches` s, an interface whose integer `bridge` b equals s
\* or is negative leaves the flag false after the run, and one with 0 <= b < s
\* gets no bridge diagnostic.
C3_BridgeWithinSwitches ==
    (Returned /\ config.switches.k = "int") =>
        \A mi \in Machines : \A ii \in Ifaces(mi) :
            LET b == IVals(mi, ii).bridge
                s == config.switches.n
            IN  b.k = "int" =>
                   /\ (b.n = s \/ b.n < 0) => ~all_ok
                   /\ (0 <= b.n /\ b.n < s) =>
                          Diag("bridge_invalid", MName(mi), IName(mi, ii)) \notin log

Exists(p) == isdir(p) \/ isfile(p)

FileRejected(mi, f) ==
    [Diag("file_missing", MName(mi), f.name) EXCEPT !.dir = f.dir] \in log

\* C4: after the file checker has run, a host file that does not exist joined to
\* config_dir but exists as given is not rejected and keeps its key in the
\* normalized copy; the only files rejected exist at neither place.
C4_ExistingPathAccepted ==
    (pc = "idle" /\ op \in {"validate", "machine"} /\ exc = "none") =>
        \A mi \in Machines : \A fi \in Files(mi) :
            LET f == MVals(mi).files.v[fi].key
                joined == join(config.config_dir, f)
            IN  /\ (~Exists(joined) /\ Exists(f)) =>
                       /\ ~FileRejected(mi, f)
                       /\ HasKey(new_config.machines.v[mi].val.files.v, f)
                /\ FileRejected(mi, f) => (~Exists(joined) /\ ~Exists(f))

\* a fresh instance over the same description
Fresh(seed) == [ok |-> TRUE, cfg |-> config, new |-> deepcopy(config).val, ran |-> 0,
                exc |-> "none", log |-> {}, seed |-> seed, gen |-> 0]

\* a normalized copy with the generated MAC values blanked and every `files`
\* as its set of entries
Blank(c) ==
    [c EXCEPT !.machines.v =
        [mi \in DOMAIN c.machines.v |->
            LET m == c.machines.v[mi].val IN
            [key |-> c.machines.v[mi].key,
             val |-> [m EXCEPT
                 !.files.v = Entries(m.files.v),
                 !.interfaces.v =
                     [ii \in DOMAIN m.interfaces.v |->
                         [m.interfaces.v[ii] EXCEPT !.val.mac.v.gen = 0]]]]]]

\* C5: a second validate() on the same instance ends as a first validate() on a
\* fresh instance does: raising or not, with the same flag and the same
\* normalized copy up to the generated MAC values.
C5_SecondRunLikeFirst ==
    (Ended /\ history = <<"validate", "validate">>) =>
        \E seed \in Seeds :
            LET first == validate(Fresh(seed)) IN
            /\ exc = first.exc
            /\ all_ok = first.ok
            /\ Blank(new_config) = Blank(first.new)

\* C6: validators_ran is the number of checker invocations since construction;
\* stated of the instances on which nothing but validate() has been called.
C6_RanCountsInvocations ==
    (\A i \in DOMAIN history : history[i] = "validate") => validators_ran = invoked

\* C7: no call changes the description handed to the constructor: every write
\* goes to the normalized copy, which shares nothing with the original.
C7_OriginalUnchanged == [][config' = config]_vars

\* a checker has written into the normalized copy
C7_Witness == pc = "idle" /\ Len(history) >= 2 /\ new_config # config

\* C8: when validate() has returned with the flag true, every VLAN link and every
\* bridge slave names a key of the owning machine's `interfaces`.
C8_NoDanglingReferenceWhenOk ==
    (Returned /\ all_ok) =>
        \A mi \in Machines :
            /\ \A vi \in Vlans(mi) :
                   /\ VVals(mi, vi).link.k = "str"
                   /\ MVals(mi).interfaces.k = "dict"
                   /\ HasKey(MVals(mi).interfaces.v, VVals(mi, vi).link.s)
            /\ \A bi \in Bridges(mi) :
                   /\ BVals(mi, bi).slaves.k = "list"
                   /\ \A si \in DOMAIN BVals(mi, bi).slaves.v :
                          /\ MVals(mi).interfaces.k = "dict"
                          /\ BVals(mi, bi).slaves.v[si] \in Keys(MVals(mi).interfaces.v)

\* validate() has returned with the flag true over a description with a VLAN
\* and a bridge with a slave
C8_Witness ==
    /\ Returned
    /\ all_ok
    /\ \E mi \in Machines : Vlans(mi) # {}
    /\ \E mi \in Machines : \E bi \in Bridges(mi) : BVals(mi, bi).slaves.v # <<>>

\* C9: when validate() has returned with the flag true, `switches` in the
\* normalized copy is a non-negative integer.
C9_SwitchesNonNegativeWhenOk ==
    (Returned /\ all_ok) =>
        (new_config.switches.k = "int" /\ new_config.switches.n >= 0)

\* C10: validate() sets the flag true, then invokes the switch checker, the
\* machine checker and, exactly if the description has `veths`, the veth
\* checker, in that order, whatever an earlier checker recorded.
C10_CheckersInOrder ==
    /\ pc = "switch" => (all_ok /\ calls = <<>>)
    /\ pc = "machine" => calls = <<"switch">>
    /\ pc = "veth" => calls = <<"switch", "machine">>
    /\ Ended => calls = IF VethsPresent THEN <<"switch", "machine", "veth">>
                        ELSE <<"switch", "machine">>

\* the most recent call ran the machine checker, alone or inside validate(),
\* and has returned
MachineReturned == pc = "idle" /\ op \in {"validate", "machine"} /\ exc = "none"

\* C11: after the file checker, for every host file key that exists joined to
\* config_dir, the normalized copy's `files` maps the joined path to that key's
\* original value and no longer holds the relative key, every entry that was
\* not rewritten is as it was, and the rewrite records no violation.
C11_ExistingFileKeyRewritten ==
    MachineReturned =>
        \A mi \in Machines : \A fi \in Files(mi) :
            LET files == MVals(mi).files.v
                newfiles == new_config.machines.v[mi].val.files.v
                f == files[fi].key
                joined == join(config.config_dir, f)
            IN  Exists(joined) =>
                   /\ HasKey(newfiles, joined)
                   /\ Get(newfiles, joined) = files[fi].val
                   /\ joined # f => ~HasKey(newfiles, f)
                   /\ \A gi \in Files(mi) :
                          ~Exists(join(config.config_dir, files[gi].key)) =>
                              /\ HasKey(newfiles, files[gi].key)
                              /\ Get(newfiles, files[gi].key) = files[gi].val
                   /\ ~FileRejected(mi, f)

\* n is o, or o after the normalization of its `mac` and of its routes' `to`
FrameIface(o, n) ==
    /\ n.key = o.key
    /\ n.val.ipv4 = o.val.ipv4 /\ n.val.ipv6 = o.val.ipv6 /\ n.val.bridge = o.val.bridge
    /\ \/ n.val.mac = o.val.mac
       \/ /\ o.val.mac.k = "absent"
          /\ n.val.mac.k = "str" /\ n.val.mac.v.gen # 0 /\ MacMatches(n.val.mac.v)
    /\ n.val.routes.k = o.val.routes.k
    /\ DOMAIN n.val.routes.v = DOMAIN o.val.routes.v
    /\ \A ri \in DOMAIN o.val.routes.v :
           LET r == o.val.routes.v[ri] IN
           \/ n.val.routes.v[ri] = r
           \/ r.to.k = "str" /\ r.to.s = "default" /\
              n.val.routes.v[ri] = [r EXCEPT !.to.s = "0.0.0.0/0"]

\* n is o, or o with its `id` coerced to an integer
FrameVlan(o, n) ==
    /\ n.key = o.key
    /\ n.val.link = o.val.link /\ n.val.addresses = o.val.addresses
    /\ \/ n.val.id = o.val.id
       \/ o.val.id.k = "str" /\ IsNumeric(o.val.id.s) /\
          n.val.id = IdV("int", IntOfStr(o.val.id.s), "")

\* n holds the entries of o, each under its key or under that key joined to
\* config_dir, and no other entry
FrameFiles(o, n) ==
    /\ n.k = o.k
    /\ Len(n.v) = Len(o.v)
    /\ \A e \in Entries(o.v) :
           \E d \in Entries(n.v) :
               d.val = e.val /\ d.key \in {e.key, join(config.config_dir, e.key)}
    /\ \A d \in Entries(n.v) :
           \E e \in Entries(o.v) :
               d.val = e.val /\ d.key \in {e.key, join(config.config_dir, e.key)}

FrameMachine(o, n) ==
    /\ n.key = o.key
    /\ n.val.type = o.val.type /\ n.val.bridges = o.val.bridges
    /\ FrameFiles(o.val.files, n.val.files)
    /\ n.val.interfaces.k = o.val.interfaces.k
    /\ DOMAIN n.val.interfaces.v = DOMAIN o.val.interfaces.v
    /\ \A ii \in DOMAIN o.val.interfaces.v :
           FrameIface(o.val.interfaces.v[ii], n.val.interfaces.v[ii])
    /\ n.val.vlans.k = o.val.vlans.k
    /\ DOMAIN n.val.vlans.v = DOMAIN o.val.vlans.v
    /\ \A vi \in DOMAIN o.val.vlans.v : FrameVlan(o.val.vlans.v[vi], n.val.vlans.v[vi])

\* the description of the example: two switches, r1 with eth0 and eth1
TwoBridgeExample ==
    Description(IntV(2), DictV(<<[key |-> "r1", val |-> TwoBridgeRouter]>>), NoSeq)

\* C12: the normalized copy differs from the original by nothing but generated
\* MAC values, integer VLAN ids, `0.0.0.0/0` for a route to `default` and
\* joined file keys: no other key is added, removed or changed.  After
\* validate() on the two-bridge example the flag is true and the copy is the
\* original with a generated MAC on eth0 and on eth1.
C12_CopyDiffersByNormalizationsOnly ==
    /\ new_config.switches = config.switches
    /\ new_config.veths = config.veths
    /\ new_config.config_dir = config.config_dir
    /\ new_config.machines.k = config.machines.k
    /\ DOMAIN new_config.machines.v = DOMAIN config.machines.v
    /\ \A mi \in DOMAIN config.machines.v :
           FrameMachine(config.machines.v[mi], new_config.machines.v[mi])
    /\ (Ended /\ config = TwoBridgeExample) =>
           /\ exc = "none"
           /\ all_ok
           /\ \A ii \in Ifaces(1) :
                  new_config.machines.v[1].val.interfaces.v[ii].val.mac.k = "str"

\* C13: after validate() has returned, first or later on the same instance,
\* every interface without `mac` in the original has in the copy a `mac` drawn
\* from the generator and matching the pattern, and no MAC diagnostic; after validate() has ended,
\* an interface with `mac` in the original has that value in the copy, and the
\* flag is false (without an exception) if it does not match the pattern.
C13_MacGeneratedOrKept ==
    Ended =>
        \A mi \in Machines : \A ii \in Ifaces(mi) :
            LET mac == IVals(mi, ii).mac
                newmac == new_config.machines.v[mi].val.interfaces.v[ii].val.mac
            IN  /\ (exc = "none" /\ mac.k = "absent") =>
                       /\ newmac.k = "str"
                       /\ newmac.v.gen # 0
                       /\ MacMatches(newmac.v)
                       /\ Diag("mac_invalid", MName(mi), IName(mi, ii)) \notin log
                /\ mac.k # "absent" =>
                       /\ newmac = mac
                       /\ (mac.k # "str" \/ ~MacMatches(mac.v)) => (exc = "none" /\ ~all_ok)

\* the diagnostic about the ri-th route of an interface
RouteDiag(what, mi, ii, ri) == [Diag(what, MName(mi), IName(mi, ii)) EXCEPT !.idx = ri]

\* C14: after the machine checker, for every route of a list `routes`: a `to`
\* of `default` is `0.0.0.0/0` in the copy at the same place and has no
\* diagnostic; a `to` that parses as a network is unchanged and has no
\* diagnostic; a missing or otherwise unparseable `to`, a missing `via` and a
\* `via` that is no bare address each have their diagnostic and leave the flag
\* false, whatever the routes before them were.
C14_RoutesCheckedOneByOne ==
    MachineReturned =>
        \A mi \in Machines : \A ii \in Ifaces(mi) :
            IVals(mi, ii).routes.k = "list" =>
                \A ri \in DOMAIN IVals(mi, ii).routes.v :
                    LET route == IVals(mi, ii).routes.v[ri]
                        newroute == new_config.machines.v[mi].val.interfaces.v[ii].val.routes.v[ri]
                        ToMissing == RouteDiag("route_to_missing", mi, ii, ri) \in log
                        ToInvalid == RouteDiag("route_to_invalid", mi, ii, ri) \in log
                        ViaMissing == RouteDiag("route_via_missing", mi, ii, ri) \in log
                        ViaInvalid == RouteDiag("route_via_invalid", mi, ii, ri) \in log
                    IN  /\ newroute.via = route.via
                        /\ IF route.to.k = "absent"
                           THEN ToMissing /\ ~ToInvalid /\ ~all_ok /\ newroute.to = route.to
                           ELSE IF route.to.s = "default"
                           THEN ~ToMissing /\ ~ToInvalid /\ newroute.to = StrV("0.0.0.0/0")
                           ELSE IF ip_network(route.to.s)
                           THEN ~ToMissing /\ ~ToInvalid /\ newroute.to = route.to
                           ELSE ToInvalid /\ ~ToMissing /\ ~all_ok /\ newroute.to = route.to
                        /\ IF route.via.k = "absent"
                           THEN ViaMissing /\ ~ViaInvalid /\ ~all_ok
                           ELSE IF ip_address(route.via.s)
                           THEN ~ViaMissing /\ ~ViaInvalid
                           ELSE ViaInvalid /\ ~ViaMissing /\ ~all_ok

\* validate() has returned over a list of two routes of which the first has a
\* violation and the second is a route to `default`, rewritten in the copy
C14_Witness ==
    /\ Returned
    /\ \E mi \in Machines : \E ii \in Ifaces(mi) :
           /\ IVals(mi, ii).routes.k = "list"
           /\ Len(IVals(mi, ii).routes.v) = 2
           /\ \E what \in {"route_to_invalid", "route_via_missing"} :
                  RouteDiag(what, mi, ii, 1) \in log
           /\ IVals(mi, ii).routes.v[2].to = StrV("default")
           /\ new_config.machines.v[mi].val.interfaces.v[ii].val.routes.v[2].to =
                  StrV("0.0.0.0/0")

\* the diagnostic about a VLAN
VlanDiag(what, mi, vi) == Diag(what, MName(mi), VName(mi, vi))

\* a machine with eth0 whose only VLAN is {id: "10", link: eth0, addresses: [10.0.0.1/24]}
VlanExample ==
    Description(IntV(MaxSwitches),
                DictV(<<[key |-> "r1",
                         val |-> Machine(StrV("host"), NoSeq, GoodIfaces,
                                         DictV(<<[key |-> "vlan0", val |-> GoodVlan]>>),
                                         NoSeq)]>>),
                NoSeq)

\* C15: after validate(), a VLAN without `id` leaves the flag false; an `id`
\* that int() accepts is that integer in the copy and has no diagnostic; an `id`
\* that int() does not accept (a string that is no number, a list, null) leaves
\* the flag false and validate() has not raised.  On the example with
\* id "10" the flag is true.
C15_VlanIdCoercedOrRejected ==
    Ended =>
        /\ \A mi \in Machines : \A vi \in Vlans(mi) :
               LET id == VVals(mi, vi).id
                   newid == new_config.machines.v[mi].val.vlans.v[vi].val.id
                   Coercible == id.k = "int" \/ (id.k = "str" /\ IsNumeric(id.s))
               IN  /\ (exc = "none" /\ id.k = "absent") =>
                          ~all_ok /\ VlanDiag("vlan_id_missing", mi, vi) \in log
                   /\ (exc = "none" /\ Coercible) =>
                          /\ newid = IdV("int", IF id.k = "int" THEN id.n ELSE IntOfStr(id.s), "")
                          /\ VlanDiag("vlan_id_invalid", mi, vi) \notin log
                          /\ VlanDiag("vlan_id_missing", mi, vi) \notin log
                   /\ (id.k # "absent" /\ ~Coercible) => (exc = "none" /\ ~all_ok)
        /\ config = VlanExample => (exc = "none" /\ all_ok)

\* what the switch checker reports
SwitchWhats == {"switches_missing", "switches_not_int"}

\* what the machine checker reports of a machine before it comes to its VLANs
BeforeVlansWhats ==
    {"type_missing", "type_unsupported", "files_not_dict", "file_missing",
     "interfaces_missing", "interfaces_not_dict", "ipv4_invalid", "ipv6_invalid",
     "mac_invalid", "bridge_missing", "bridge_invalid", "routes_not_list",
     "route_to_missing", "route_to_invalid", "route_via_missing", "route_via_invalid"}

\* what the VLAN checker reports of one VLAN
VlanWhats ==
    {"vlan_id_missing", "vlan_id_invalid", "vlan_link_missing", "vlan_link_not_str",
     "vlan_link_dangling", "vlan_addresses_not_list", "vlan_address_invalid"}

\* within one validate(), diagnostic d is recorded before the link of the
\* vi-th VLAN of the mi-th machine is looked at: by the switch checker, for an
\* earlier machine, for an earlier section of this machine, for an earlier
\* VLAN of this machine, or for the id of this VLAN
RecordedBefore(d, mi, vi) ==
    \/ d.what \in SwitchWhats
    \/ \E mj \in Machines : mj < mi /\ d.m = MName(mj)
    \/ d.m = MName(mi) /\ d.what \in BeforeVlansWhats
    \/ d.m = MName(mi) /\ d.what \in VlanWhats /\
       \E vj \in Vlans(mi) : vj < vi /\ d.item = VName(mi, vj)
    \/ d \in {VlanDiag("vlan_id_missing", mi, vi), VlanDiag("vlan_id_invalid", mi, vi)}

\* validate() has run the machine checker, which has returned
MachineCheckedInRun == op = "validate" /\ pc \in {"veth", "idle"} /\ exc = "none"

\* C16: in a validate(), a VLAN whose link is a string gets the dangling-link
\* diagnostic exactly if the link names no interface of the machine and no
\* violation was recorded in the run before its link was looked at; with the
\* diagnostic the flag is false.
C16_LinkTestOnlyWhileOk ==
    MachineCheckedInRun =>
        \A mi \in Machines : \A vi \in Vlans(mi) :
            LET link == VVals(mi, vi).link
                Dangling == VlanDiag("vlan_link_dangling", mi, vi) \in log
            IN  link.k = "str" =>
                    /\ Dangling <=> /\ LinkDangling(mi, link.s)
                                    /\ ~\E d \in log : RecordedBefore(d, mi, vi)
                    /\ Dangling => ~all_ok

\* validate() has returned over a machine with two VLANs with a dangling link:
\* the first has the diagnostic, the second has not
C16_Witness ==
    /\ Returned
    /\ \E mi \in Machines : \E vi, vj \in Vlans(mi) :
           /\ vi < vj
           /\ VVals(mi, vi).link.k = "str" /\ LinkDangling(mi, VVals(mi, vi).link.s)
           /\ VVals(mi, vj).link.k = "str" /\ LinkDangling(mi, VVals(mi, vj).link.s)
           /\ VlanDiag("vlan_link_dangling", mi, vi) \in log
           /\ VlanDiag("vlan_link_dangling", mi, vj) \notin log

\* what the veth checker reports
VethWhats ==
    {"veths_not_dict", "veth_name_not_str", "veth_not_dict", "veth_bridge_missing",
     "veth_bridge_not_str", "veth_peer_not_str", "veth_stp_not_bool"}

\* `veths` is absent, or a mapping of string names to mappings with a string
\* `bridge`, a string `peer` if any and a boolean `stp` if any
VethsValid ==
    \/ config.veths.k = "absent"
    \/ /\ config.veths.k = "dict"
       /\ \A e \in Entries(config.veths.v) :
              /\ e.key.k = "str"
              /\ e.val.k = "dict"
              /\ e.val.bridge = "str"
              /\ e.val.peer \in {"absent", "str"}
              /\ e.val.stp \in {"absent", "bool"}

\* validate() has returned and the switch and machine checkers reported nothing
OtherwiseValid == Returned /\ \A d \in log : d.what \in VethWhats

\* a direct call of the veth checker
VethCalled == pc = "idle" /\ pc' = "idle" /\ history' = Append(history, "veth")

\* C17: when validate() has returned over a description that is valid apart
\* from `veths`, the flag is true exactly if `veths` is absent or valid; a
\* `veths` that is no mapping is reported once and no entry is looked at; an
\* entry without `peer` gets no peer diagnostic.  A direct call of the veth
\* checker on a description without `veths` changes neither the flag nor the
\* normalized copy.
C17_VethsDecideFlag ==
    /\ [](OtherwiseValid =>
            /\ all_ok <=> VethsValid
            /\ config.veths.k \notin {"absent", "dict"} =>
                   log = {Diag("veths_not_dict", "", "")}
            /\ config.veths.k = "dict" =>
                   \A e \in Entries(config.veths.v) :
                       e.val.peer = "absent" =>
                           Diag("veth_peer_not_str", "", e.key.s) \notin log)
    /\ [][(VethCalled /\ ~VethsPresent) =>
              (all_ok' = all_ok /\ new_config' = new_config /\ exc' = "none")]_vars

\* validate() has returned with the flag true over a `veths` with an entry
\* that has no `peer`
C17_Witness ==
    /\ Returned
    /\ all_ok
    /\ config.veths.k = "dict"
    /\ \E e \in Entries(config.veths.v) : e.val.k = "dict" /\ e.val.peer = "absent"

\* C18: the only step that makes the flag true is the reset at the start of
\* validate(): no checker does, so within a run a false flag stays false.  In
\* and at the end of a validate(), the flag is false exactly if a violation
\* has been recorded in that run, whatever earlier runs recorded.
C18_FlagMonotoneWithinRun ==
    /\ [][(~all_ok /\ all_ok') => (pc = "idle" /\ pc' = "switch")]_vars
    /\ [](op = "validate" => (~all_ok <=> log # {}))

\* a second validate() on the instance has passed a checker with the flag
\* false and has returned with it false, a violation recorded in this run
C18_Witness ==
    /\ Returned
    /\ Len(history) >= 2
    /\ ~all_ok
    /\ log # {}
    /\ \E d \in log : d.what \in SwitchWhats

====
